---- MODULE Spec2Model ----
(***************************************************************************)
(* Model of the render pipeline of SORT: System::Setup, System::Render,    *)
(* System::PreProcess, System::_pushRenderTask,                             *)
(* System::_executeRenderingTasks, System::_allocateIntegrator,             *)
(* System::_outputProgress and System::Uninit of src/src/system.cpp.        *)
(*                                                                         *)
(* The task queue (RenderTaskQueue), the worker thread (PlatformThreadUnit)*)
(* and the task body (RenderTask) live in utility/multithread, which is    *)
(* not among the sources; they are modelled from the design document       *)
(* (sections 4.2 and 4.3) and marked so where they are defined.            *)
(***************************************************************************)
EXTENDS Integers, Sequences, FiniteSets, TLC

(***************************************************************************)
(* Bounds of the explored inputs.                                          *)
(***************************************************************************)
MaxW == 3
MaxH == 2
MaxT == 2
\* the largest sensor, in pixels, that Setup is given
MaxPixels == 4
MaxThreads == 2
\* the number of calls of Setup and Render made on one System
MaxCalls == 3
\* the sensor sizes and tile edges of the tile-generation specification
GenMaxW == 8
GenMaxH == 7
GenMaxT == 3
\* a tile edge large enough for the default 1920 x 1080 sensor to stay small
BigTile == 1024
\* the number of tiles of the one-row pass of the progress specification
MaxTotal == 100
\* the sensor edges and the tile edge of the shared-memory specification
MidEdge == 100
HugeEdge == 8192
MidTile == 32

(***************************************************************************)
(* Program constants.                                                      *)
(***************************************************************************)
DefaultWidth == 1920
DefaultHeight == 1080
DefaultThreadNum == 1
SizeofFloat == 4
\* stands for the value of an integer member that has never been assigned
Indeterminate == -1

Widths == 1..MaxW
Heights == 1..MaxH
TileSizes == (1..MaxT) \cup {BigTile}
ThreadNums == 0..MaxThreads
LargeEdges == {1, MidEdge, DefaultWidth, DefaultHeight, HugeEdge}
LargeTileSizes == {1, MidTile, BigTile}

VARIABLES
    g_bBlenderMode,   \* extern bool g_bBlenderMode
    g_iTileSize,      \* extern int g_iTileSize
    pc,               \* position of the main thread
    nCalls,           \* calls of Setup, PreProcess and Render counted so far
    m_imagesensor,    \* "null" or "obj"
    sensorW,          \* m_imagesensor->GetWidth()
    sensorH,          \* m_imagesensor->GetHeight()
    m_camera,         \* "null" or "obj"
    m_pSampler,       \* "uninit" (never assigned), "null" or "obj"
    m_iSamplePerPixel, \* "uninit" (never assigned) or "set"
    m_integratorType, \* "unset", "known" (a registered name) or "unknown"
    m_thread_num,
    m_pProgress,      \* TRUE iff the pointer is not null
    smSize,           \* int size, the size asked of CreateSharedMemory
    regionSize,       \* sm.size of the region m_pProgress points into, else 0
    setupRet,         \* "none", then "true", "false", or "undefined"
    m_totalTask,      \* Indeterminate until _pushRenderTask assigns it
    m_taskDone,       \* ptr: "uninit" (never assigned), "null" or "obj";
                      \* flags: the table, entry taskId + 1 of a sequence
    queue,            \* RenderTaskQueue, head first
    backlog,          \* the tasks the queue held when Render was called
    sp,               \* locals of _pushRenderTask
    integrator,       \* local of _executeRenderingTasks: "none", "null", "obj"
    thr,              \* thr[i]: state and task of PlatformThreadUnit i
    nStarted,         \* threads whose BeginThread has been called
    nJoined,          \* threads whose Join has returned
    progressByte,     \* the byte m_pProgress points to
    console,          \* last percentage printed on cout, -1 if none
    lastReport,       \* what the last _outputProgress counted and computed
    warnings,         \* slog( WARNING , ... ) messages of the current call
    nullUsed,         \* null or never assigned members that were used,
                      \* "region" for a store beyond the shared memory
    calls,            \* collaborator hooks called by the current call
    pushed,           \* every task this call of Render handed to PushTask
    popped,           \* every task a pop has returned in this call
    rendered          \* tasks whose tile this call has written to the sensor

vars == << g_bBlenderMode, g_iTileSize, pc, nCalls, m_imagesensor, sensorW,
           sensorH, m_camera, m_pSampler, m_iSamplePerPixel, m_integratorType,
           m_thread_num, m_pProgress, smSize, regionSize, setupRet,
           m_totalTask, m_taskDone,
           queue, backlog, sp, integrator, thr, nStarted, nJoined, progressByte,
           console, lastReport, warnings, nullUsed, calls, pushed, popped,
           rendered >>

globalVars == << g_bBlenderMode, g_iTileSize >>
configVars == << m_imagesensor, sensorW, sensorH, m_camera, m_pSampler,
                 m_iSamplePerPixel, m_integratorType, m_thread_num,
                 m_pProgress, smSize, regionSize, setupRet >>
taskVars == << m_totalTask, m_taskDone, queue, backlog, sp, pushed >>
threadVars == << integrator, thr, nStarted, nJoined, popped, rendered >>
progressVars == << progressByte, console, lastReport >>

NoReport == [ taskDone |-> 0, total |-> 0, progress |-> -1 ]
\* m_taskDone before _pushRenderTask has assigned it, and after Uninit
NoTable == [ ptr |-> "uninit", flags |-> << >> ]
NullTable == [ ptr |-> "null", flags |-> << >> ]
\* new bool[n], cleared by memset
NewTable(n) == [ ptr |-> "obj", flags |-> [ i \in 1..n |-> FALSE ] ]

NoLocals == [tile_num |-> <<0, 0>>, cur_pos |-> <<0, 0>>, cur_dir |-> 0,
             cur_len |-> 0, cur_dir_len |-> 0, taskid |-> 0]

(***************************************************************************)
(* System::System / System::_preInit.  m_pSampler, m_iSamplePerPixel,       *)
(* m_totalTask and m_taskDone are not assigned by _preInit: their values    *)
(* are indeterminate.                                                       *)
(***************************************************************************)
PreInit ==
    /\ pc = "Constructed"
    /\ nCalls = 0
    /\ m_imagesensor = "null"
    /\ sensorW = 0
    /\ sensorH = 0
    /\ m_camera = "null"
    /\ m_pSampler = "uninit"
    /\ m_iSamplePerPixel = "uninit"
    /\ m_integratorType = "unset"
    /\ m_thread_num = DefaultThreadNum
    /\ m_pProgress = FALSE
    /\ smSize = 0
    /\ regionSize = 0
    /\ setupRet = "none"
    /\ m_totalTask = Indeterminate
    /\ m_taskDone = NoTable
    /\ queue = << >>
    /\ backlog = << >>
    /\ sp = NoLocals
    /\ integrator = "none"
    /\ thr = << >>
    /\ nStarted = 0
    /\ nJoined = 0
    /\ progressByte = 0
    /\ console = -1
    /\ lastReport = NoReport
    /\ warnings = {}
    /\ nullUsed = {}
    /\ calls = {}
    /\ pushed = << >>
    /\ popped = << >>
    /\ rendered = {}

Init ==
    /\ g_bBlenderMode \in BOOLEAN
    /\ g_iTileSize \in TileSizes
    /\ PreInit

(***************************************************************************)
(* Undefined behaviour.  A call or a load through a null (or never set)    *)
(* pointer is undefined: the build may stop there with a fault or go on in *)
(* any way at all.  The action that does it records the pointer in         *)
(* nullUsed and moves the main thread to "Undefined", where every outcome  *)
(* is possible and the model follows the process no further.               *)
(***************************************************************************)
Halted == pc = "Undefined"

(***************************************************************************)
(* Arithmetic of the machine.                                              *)
(***************************************************************************)
Pow2(n) == 2^n

\* n / d rounded to the nearest integer, ties to even (IEEE 754 default)
RoundNearestEven(n, d) ==
    LET q == n \div d
        r == n % d
    IN  IF 2 * r > d \/ (2 * r = d /\ q % 2 = 1) THEN q + 1 ELSE q

\* the number of binary digits of n
RECURSIVE BitLength(_)
BitLength(n) == IF n = 0 THEN 0 ELSE 1 + BitLength(n \div 2)

\* (float)n for an integer 0 <= n < 2^30: n rounded to 24 significant bits
ToFloat(n) ==
    IF BitLength(n) <= 24 THEN n
    ELSE RoundNearestEven(n, Pow2(BitLength(n) - 24)) * Pow2(BitLength(n) - 24)

\* ceil of the single-precision quotient a / b of two float values a, b that
\* are integers, with k = floor(a / b) and r = a - k * b.  The quotient is
\* rounded to 24 significant bits before ceil is taken: a quotient of 2^24
\* or more is rounded to an integer; below that, k of `bits' binary digits
\* leaves 24 - bits digits for the fraction r / b, which is rounded away
\* when it is less than half a unit of the last digit (or exactly half,
\* the last digit being even).
CeilOfQuotient(b, k, r, bits) ==
    IF r = 0 THEN k
    ELSE IF k = 0 THEN 1
    ELSE IF bits > 24
    THEN RoundNearestEven(k * b + r, b * Pow2(bits - 24)) * Pow2(bits - 24)
    ELSE IF r <= (b - 1) \div Pow2(25 - bits) THEN k
    ELSE IF b % Pow2(25 - bits) = 0 /\ r = b \div Pow2(25 - bits)
            /\ (bits < 24 \/ k % 2 = 0) THEN k
    ELSE k + 1

\* (int)ceil( n / (float)tilesize ), lines 190, 406 and 407: n and tilesize
\* are converted to float, the quotient is a float, for 0 < n, tilesize < 2^30
CeilDiv(n, tilesize) ==
    CeilOfQuotient(ToFloat(tilesize), ToFloat(n) \div ToFloat(tilesize),
                   ToFloat(n) % ToFloat(tilesize),
                   BitLength(ToFloat(n) \div ToFloat(tilesize)))

\* the int that the 64-bit unsigned value hi * 2^16 + lo is converted to:
\* its low 32 bits, read in two's complement
ToInt32(hi, lo) ==
    LET h == (hi + (lo \div Pow2(16))) % Pow2(16)
        l == lo % Pow2(16)
    IN  IF h >= Pow2(15) THEN (h - Pow2(16)) * Pow2(16) + l
        ELSE h * Pow2(16) + l

(***************************************************************************)
(* System::Setup, lines 406-411: the size of the shared memory.            *)
(* header_size * g_iTileSize * g_iTileSize * 4 is a product of ints; its   *)
(* product with sizeof(float) * 2 and the two sums are taken in size_t and *)
(* the result is converted to int.  The inputs explored keep the product   *)
(* of ints below 2^31.                                                     *)
(***************************************************************************)
HeaderSize(w, h, tilesize) == CeilDiv(w, tilesize) * CeilDiv(h, tilesize)

SharedMemorySize(w, h, tilesize) ==
    LET header == HeaderSize(w, h, tilesize)
        image == header * tilesize * tilesize * 4
        scale == SizeofFloat * 2
    IN  ToInt32((image \div Pow2(16)) * scale + (header \div Pow2(16)),
                (image % Pow2(16)) * scale + (header % Pow2(16)) + 2)

\* line 422: m_pProgress = sm.bytes + sm.size - 2, as an offset into the
\* region it was set in, and the byte after it, the final update flag
ProgressOffset == regionSize - 2
FinalFlagOffset == regionSize - 1

(***************************************************************************)
(* System::Setup.  A configuration names, for each element of the XML      *)
(* file, whether it is present and what it holds.  When Setup returns      *)
(* before SetSensorSize is called, the sensor keeps the dimensions its      *)
(* constructor left, which the sources do not determine: w and h stand for *)
(* them too.                                                               *)
(***************************************************************************)
Configs ==
    [ scene : {"absent", "novalue", "ok"},
      integ : {"absent", "known", "unknown"},
      size : {"absent", "given"},
      w : Widths,
      h : Heights,
      sampler : {"absent", "known", "unknown"},
      camera : {"absent", "known", "unknown"},
      threadnum : {"absent", "given"},
      n : ThreadNums,
      smBytes : BOOLEAN ]

\* the main thread is inside no call: a public function may be called
Idle ==
    pc \in {"Constructed", "SetupDone", "PreProcessDone", "Done", "Released"}

\* A public function is called: the locals of the last Render are gone, and
\* the record of what that Render has done is dropped.
BeginCall ==
    /\ backlog' = queue
    /\ sp' = NoLocals
    /\ pushed' = << >>
    /\ integrator' = "none"
    /\ thr' = << >>
    /\ nStarted' = 0
    /\ nJoined' = 0
    /\ popped' = << >>
    /\ rendered' = {}
    /\ console' = -1
    /\ lastReport' = NoReport

\* lines 288-291: Setup has made the sensor; every other member holds what it
\* held before the call, no hook has been called, nothing has been replaced
SetupEntry(cfg) ==
    [ sensor |-> "obj", w |-> cfg.w, h |-> cfg.h, integ |-> m_integratorType,
      sampler |-> m_pSampler, samples |-> m_iSamplePerPixel,
      camera |-> m_camera, threads |-> m_thread_num,
      progress |-> m_pProgress, size |-> smSize, region |-> regionSize,
      byte |-> progressByte, replaced |-> {}, calls |-> {}, used |-> {},
      ret |-> "false" ]

\* lines 339-346: the render target size, 1920 x 1080 when none is given
SetupWidth(cfg) == IF cfg.size = "given" THEN cfg.w ELSE DefaultWidth
SetupHeight(cfg) == IF cfg.size = "given" THEN cfg.h ELSE DefaultHeight

\* lines 349-366: CREATE_TYPE yields null for a name that is not registered
SetupSampler(cfg) == IF cfg.sampler = "unknown" THEN "null" ELSE "obj"

\* lines 368-377: CREATE_TYPE yields null for a name that is not registered;
\* m_camera keeps its value when there is no Camera element
SetupCamera(cfg) ==
    IF cfg.camera = "known" THEN "obj"
    ELSE IF cfg.camera = "unknown" THEN "null"
    ELSE m_camera

\* lines 395-397: m_thread_num keeps its value when there is no ThreadNum
SetupThreadNum(cfg) == IF cfg.threadnum = "given" THEN cfg.n ELSE m_thread_num

\* lines 304-313 and 316-336: no Scene element, no value in it, no Integrator
SetupLacksScene(cfg) == cfg.scene # "ok" \/ cfg.integ = "absent"

\* lines 374-377: if( !m_camera ) return false, inside if( element )
SetupLacksCamera(cfg) == cfg.camera = "unknown"

\* lines 339-366: the sensor sized, the integrator named, a sampler made
SetupSampled(cfg) ==
    [ SetupEntry(cfg) EXCEPT !.w = SetupWidth(cfg), !.h = SetupHeight(cfg),
                             !.integ = cfg.integ,
                             !.sampler = SetupSampler(cfg),
                             !.replaced = {"sampler"} ]

\* lines 368-403: the camera made when there is a Camera element, the thread
\* count read, the sensor given to the camera and the camera preprocessed
SetupAttached(cfg, tilesize) ==
    [ SetupSampled(cfg) EXCEPT
        !.samples = "set",
        !.camera = "obj",
        !.replaced = IF cfg.camera = "known" THEN {"sampler", "camera"}
                     ELSE {"sampler"},
        !.threads = SetupThreadNum(cfg),
        !.calls = {"Camera.PreProcess"},
        !.size = SharedMemorySize(SetupWidth(cfg), SetupHeight(cfg),
                                  tilesize),
        !.ret = "true" ]

\* Setup assigns m_imagesensor first; every other member keeps the value it
\* has until the line that assigns it is reached
SetupRun(cfg, tilesize) ==
    IF SetupLacksScene(cfg)
    THEN \* return false
         SetupEntry(cfg)
    ELSE IF SetupSampler(cfg) = "null"
    THEN \* line 361: m_pSampler->RoundSize(round) through the null pointer
         [ SetupSampled(cfg) EXCEPT !.used = {"sampler"}, !.ret = "undefined" ]
    ELSE IF SetupLacksCamera(cfg)
    THEN \* return false
         [ SetupSampled(cfg) EXCEPT !.samples = "set", !.camera = "null",
                                    !.replaced = {"sampler", "camera"} ]
    ELSE IF SetupCamera(cfg) = "null"
    THEN \* line 400: m_camera->SetImageSensor through the null pointer
         [ SetupSampled(cfg) EXCEPT !.samples = "set",
                                    !.threads = SetupThreadNum(cfg),
                                    !.used = {"camera"}, !.ret = "undefined" ]
    ELSE IF ~cfg.smBytes
    THEN \* lines 414-425: no region is handed out, m_pProgress keeps its value
         SetupAttached(cfg, tilesize)
    ELSE IF SetupAttached(cfg, tilesize).size < 0
    THEN \* line 419: memset( sm.bytes , 0 , sm.size ) with the negative size
         \* converted to size_t stores beyond the region
         [ SetupAttached(cfg, tilesize) EXCEPT !.used = {"region"}, !.ret = "undefined" ]
    ELSE \* lines 416-425: the region cleared, m_pProgress set, return true
         [ SetupAttached(cfg, tilesize) EXCEPT !.progress = TRUE,
                                     !.region = SetupAttached(cfg, tilesize).size,
                                     !.byte = 0 ]

\* line 186: what a task holds of the System: the object the member points
\* to ("own"), or the null or never assigned value of the member
Held(member) == IF member = "obj" THEN "own" ELSE member

\* the tasks of q when the System has replaced the members named in fields:
\* the object a task held is not the System's any more; it is not deleted
Replaced(q, fields) ==
    [ i \in DOMAIN q |->
        [ f \in DOMAIN q[i] |->
            IF f \in fields /\ q[i][f] = "own" THEN "old" ELSE q[i][f] ] ]

\* the tasks of q when the System has deleted the members named in fields
Deleted(q, fields) ==
    [ i \in DOMAIN q |->
        [ f \in DOMAIN q[i] |->
            IF f \in fields /\ q[i][f] = "own" THEN "freed" ELSE q[i][f] ] ]

\* Setup has no guard: it may be called on a System in any state.  The tasks
\* a pass without workers has left in the queue keep the sampler and the
\* camera they were made with (Setup deletes neither).
SetupEnds(r) ==
    /\ Idle
    /\ nCalls < MaxCalls
    /\ nCalls' = nCalls + 1
    /\ m_imagesensor' = r.sensor
    /\ sensorW' = r.w
    /\ sensorH' = r.h
    /\ m_integratorType' = r.integ
    /\ m_pSampler' = r.sampler
    /\ m_iSamplePerPixel' = r.samples
    /\ m_camera' = r.camera
    /\ m_thread_num' = r.threads
    /\ m_pProgress' = r.progress
    /\ smSize' = r.size
    /\ regionSize' = r.region
    /\ progressByte' = r.byte
    /\ nullUsed' = nullUsed \cup r.used
    /\ setupRet' = r.ret
    /\ calls' = r.calls
    /\ pc' = IF r.ret = "undefined" THEN "Undefined" ELSE "SetupDone"
    /\ queue' = Replaced(queue, r.replaced)
    /\ warnings' = {}
    /\ BeginCall
    /\ UNCHANGED << globalVars, m_totalTask, m_taskDone >>

SetupWith(cfg) == SetupEnds(SetupRun(cfg, g_iTileSize))

\* what Setup reads of a document: an element that comes after the line
\* at which Setup returns is not read, and w and h are read only when the
\* size is given or Setup returns before it has set the size.  Such a
\* field is given one value.
SetupReads(cfg) ==
    /\ cfg.scene # "ok" => cfg.integ = "known"
    /\ SetupLacksScene(cfg) =>
         (cfg.size = "given" /\ cfg.sampler = "known")
    /\ (~SetupLacksScene(cfg) /\ cfg.size = "absent") =>
         (cfg.w = 1 /\ cfg.h = 1)
    /\ (SetupLacksScene(cfg) \/ cfg.sampler = "unknown") =>
         cfg.camera = "known"
    /\ (SetupLacksScene(cfg) \/ cfg.sampler = "unknown"
            \/ cfg.camera = "unknown") =>
         (cfg.threadnum = "absent" /\ ~cfg.smBytes)
    /\ cfg.threadnum = "absent" => cfg.n = 0

\* one configuration for each document that Setup tells apart
ReadConfigs == { cfg \in Configs : SetupReads(cfg) }

\* the documents explored with tile edge tilesize: the default sensor is
\* explored with the large tile edge only
SetupConfigs(tilesize) ==
    { cfg \in ReadConfigs :
        /\ (~SetupLacksScene(cfg) /\ cfg.size = "absent") => tilesize = BigTile
        /\ cfg.w * cfg.h <= MaxPixels }

\* Setup on any document: one step for each state Setup can leave (two
\* documents that differ in what Setup does not tell apart in the state it
\* is called in, such as a Sampler element of a known type and none, leave
\* the same state)
Setup ==
    /\ Idle
    /\ nCalls < MaxCalls
    /\ \E r \in { SetupRun(cfg, g_iTileSize) : cfg \in SetupConfigs(g_iTileSize) } :
         SetupEnds(r)

\* Setup on a complete configuration whose render target is large
LargeConfigs ==
    [ scene : {"ok"}, integ : {"known"}, size : {"given"},
      w : LargeEdges, h : LargeEdges, sampler : {"known"},
      camera : {"known"}, threadnum : {"absent"}, n : {DefaultThreadNum},
      smBytes : BOOLEAN ]

SetupLarge ==
    /\ Idle
    /\ \E cfg \in LargeConfigs : SetupWith(cfg)

(***************************************************************************)
(* System::PreProcess, lines 89-113, and System::Render, lines 64-67,      *)
(* which calls it first.  Both early returns of PreProcess return to the   *)
(* caller: Render goes on to _pushRenderTask.  Neither function has a      *)
(* guard: it may be called on a System in any state.  The locals of the    *)
(* call and the record of what the call has done start empty (BeginCall).  *)
(***************************************************************************)
NoTargetWarning == "There is no render target in the system, can't render anything."
NoCameraWarning == "There is no camera attached in the system , can't render anything."
NoIntegratorWarning == "No integrator with name of"

PreProcessWarnings ==
    IF m_imagesensor = "null" THEN {NoTargetWarning}
    ELSE IF m_camera = "null" THEN {NoCameraWarning}
    ELSE {}

\* Render calling _executeRenderingTasks before _pushRenderTask
AfterPreProcessExecuteFirst == "Execute"

\* where Render continues once PreProcess has returned
AfterPreProcess == "PushTask"

\* lines 94-112: what PreProcess logs and calls
PreProcessRun ==
    /\ warnings' = PreProcessWarnings
    /\ calls' = IF PreProcessWarnings = {} THEN {"Scene.PreProcess"} ELSE {}

\* System::PreProcess called by itself: it warns or preprocesses the scene
\* and returns; it changes no member of the System
PreProcess ==
    /\ Idle
    /\ nCalls < MaxCalls
    /\ nCalls' = nCalls + 1
    /\ PreProcessRun
    /\ pc' = "PreProcessDone"
    /\ BeginCall
    /\ UNCHANGED << globalVars, configVars, m_totalTask, m_taskDone, queue,
                    progressByte, nullUsed >>

\* lines 64-67: Render calls PreProcess and goes on, whatever it has logged
Render ==
    /\ Idle
    /\ nCalls < MaxCalls
    /\ nCalls' = nCalls + 1
    /\ PreProcessRun
    /\ pc' = AfterPreProcess
    /\ BeginCall
    /\ UNCHANGED << globalVars, configVars, m_totalTask, m_taskDone, queue,
                    progressByte, nullUsed >>

(***************************************************************************)
(* System::_pushRenderTask.                                                *)
(***************************************************************************)
\* lines 180-182: for( i = 0 ; i < n ; i += tilesize ) counts one for each i,
\* for n + tilesize below 2^31
RECURSIVE CountLoop(_, _, _)
CountLoop(i, n, tilesize) ==
    IF i < n THEN 1 + CountLoop(i + tilesize, n, tilesize) ELSE 0

CountSteps(n, tilesize) == CountLoop(0, n, tilesize)

CountTasks(w, h, tilesize) == CountSteps(h, tilesize) * CountSteps(w, tilesize)

TileNum(w, h, tilesize) == << CeilDiv(w, tilesize), CeilDiv(h, tilesize) >>

\* the walk started at the top-left cell of the grid
StartPosCorner(tile_num) == << 0, 0 >>

\* line 193: Vector2i cur_pos( tile_num / 2 )
StartPos(tile_num) == << tile_num[1] \div 2, tile_num[2] \div 2 >>

\* the directions taken clockwise: up, right, down, left
DirClockwise(d) ==
    CASE d = 0 -> << 0, -1 >>
      [] d = 1 -> << 1, 0 >>
      [] d = 2 -> << 0, 1 >>
      [] d = 3 -> << -1, 0 >>

\* line 197
Dir(d) ==
    CASE d = 0 -> << 0, -1 >>
      [] d = 1 -> << -1, 0 >>
      [] d = 2 -> << 0, 1 >>
      [] d = 3 -> << 1, 0 >>

\* line 202
InGrid(pos, tile_num) ==
    /\ pos[1] >= 0 /\ pos[1] < tile_num[1]
    /\ pos[2] >= 0 /\ pos[2] < tile_num[2]

\* the test of line 229 left out: the walk is never stopped
OutNever(pos, tile_num) == FALSE

\* line 229
OutOnBothAxes(pos, tile_num) ==
    /\ (pos[1] < 0 \/ pos[1] >= tile_num[1])
    /\ (pos[2] < 0 \/ pos[2] >= tile_num[2])

\* lines 205-206
TileOri(c, tilesize) == c * tilesize

\* lines 207-208
TileSize(ori, extent, tilesize) ==
    IF tilesize < extent - ori THEN tilesize ELSE extent - ori

\* the task built without rt.taskId = taskid++: every task keeps id 0
MakeTaskSameId(id, pos, tilesize, w, h) ==
    [ taskId |-> 0,
      ori |-> << pos[1] * tilesize, pos[2] * tilesize >>,
      size |-> << IF tilesize < w - pos[1] * tilesize
                  THEN tilesize ELSE w - pos[1] * tilesize,
                  IF tilesize < h - pos[2] * tilesize
                  THEN tilesize ELSE h - pos[2] * tilesize >>,
      sampler |-> Held(m_pSampler),
      camera |-> Held(m_camera),
      taskDone |-> Held(m_taskDone.ptr),
      pass |-> nCalls ]

\* lines 186 and 204-208: the task for grid cell pos, a copy of rt, which
\* holds the sampler, the camera and the table the System has at line 186.
\* pass numbers the call of Render that makes the task: with its id it
\* tells the task from every other task of the queue.
MakeTask(id, pos, tilesize, w, h) ==
    LET ox == TileOri(pos[1], tilesize)
        oy == TileOri(pos[2], tilesize)
    IN  [ taskId |-> id,
          ori |-> << ox, oy >>,
          size |-> << TileSize(ox, w, tilesize), TileSize(oy, h, tilesize) >>,
          sampler |-> Held(m_pSampler),
          camera |-> Held(m_camera),
          taskDone |-> Held(m_taskDone.ptr),
          pass |-> nCalls ]

\* lines 204 and 214: what one in-grid cell adds to the queue
PushTask(q, locals, tilesize, w, h) ==
    Append(q, MakeTask(locals.taskid, locals.cur_pos, tilesize, w, h))

\* lines 218-227: the walk's next locals
NextDir(locals) ==
    IF locals.cur_len >= locals.cur_dir_len
    THEN (locals.cur_dir + 1) % 4 ELSE locals.cur_dir
NextDirLen(locals) ==
    IF locals.cur_len >= locals.cur_dir_len
    THEN locals.cur_dir_len + 1 - (NextDir(locals) % 2) ELSE locals.cur_dir_len
NextLen(locals) ==
    (IF locals.cur_len >= locals.cur_dir_len THEN 0 ELSE locals.cur_len) + 1
NextPos(locals) ==
    << locals.cur_pos[1] + Dir(NextDir(locals))[1],
       locals.cur_pos[2] + Dir(NextDir(locals))[2] >>

\* lines 175-197; m_imagesensor->GetHeight() is the first use of the sensor.
\* Line 186 copies m_pSampler and m_iSamplePerPixel into rt, never assigned
\* or not; the sampler is used when a task is executed, the count at
\* line 211.  Line 183 replaces the table: the tasks an earlier pass has
\* left in the queue keep the table of that pass.
PushRenderTaskBegin ==
    /\ pc = "PushTask"
    /\ IF m_imagesensor = "null"
       THEN \* line 179 has stored 0 when line 180 calls GetHeight()
            /\ pc' = "Undefined"
            /\ nullUsed' = nullUsed \cup {"sensor"}
            /\ m_totalTask' = 0
            /\ UNCHANGED << m_taskDone, sp, queue >>
       ELSE /\ pc' = "Spiral"
            /\ nullUsed' = nullUsed
            /\ m_totalTask' = CountTasks(sensorW, sensorH, g_iTileSize)
            /\ m_taskDone' = NewTable(CountTasks(sensorW, sensorH, g_iTileSize))
            /\ sp' = [ tile_num |-> TileNum(sensorW, sensorH, g_iTileSize),
                       cur_pos |->
                         StartPos(TileNum(sensorW, sensorH, g_iTileSize)),
                       cur_dir |-> 0,
                       cur_len |-> 0,
                       cur_dir_len |-> 1,
                       taskid |-> 0 ]
            /\ queue' = Replaced(queue, {"taskDone"})
    /\ UNCHANGED << globalVars, nCalls, configVars, backlog, pushed,
                    threadVars, progressVars, warnings, calls >>

\* lines 199-231: one turn of the while loop, new PixelSample[ n ] at line 211
\* having returned
PushRenderTaskTurn ==
    /\ IF InGrid(sp.cur_pos, sp.tile_num)
       THEN /\ queue' = PushTask(queue, sp, g_iTileSize, sensorW, sensorH)
            /\ pushed' = PushTask(pushed, sp, g_iTileSize, sensorW, sensorH)
       ELSE UNCHANGED << queue, pushed >>
    /\ sp' = [ sp EXCEPT
                 !.taskid = IF InGrid(sp.cur_pos, sp.tile_num) THEN @ + 1 ELSE @,
                 !.cur_dir = NextDir(sp),
                 !.cur_len = NextLen(sp),
                 !.cur_dir_len = NextDirLen(sp),
                 !.cur_pos = NextPos(sp) ]
    /\ pc' = IF OutOnBothAxes(NextPos(sp), sp.tile_num) THEN "Execute" ELSE "Spiral"
    /\ nullUsed' = nullUsed

\* line 211 with m_iSamplePerPixel never assigned: the length of the array is
\* an indeterminate value, and the allocation fails (std::bad_alloc, which
\* nothing catches) before the task is pushed
PushRenderTaskFault ==
    /\ InGrid(sp.cur_pos, sp.tile_num)
    /\ m_iSamplePerPixel = "uninit"
    /\ pc' = "Undefined"
    /\ nullUsed' = nullUsed \cup {"samples"}
    /\ UNCHANGED << queue, pushed, sp >>

\* lines 199-231: one turn of the while loop.  In a cell of the grid the turn
\* reads m_iSamplePerPixel; when it was never assigned the turn goes on as
\* with a small value or stops at the failed allocation.
PushRenderTaskStep ==
    /\ pc = "Spiral"
    /\ (PushRenderTaskTurn \/ PushRenderTaskFault)
    /\ UNCHANGED << globalVars, nCalls, configVars, m_totalTask, m_taskDone,
                    backlog, threadVars, progressVars, warnings, calls >>

(***************************************************************************)
(* System::Uninit, lines 157-169: the scene is released and the sensor,    *)
(* the camera, the sampler and the completion table are deleted and set to *)
(* null (SAFE_DELETE skips a null pointer).  A member that was never       *)
(* assigned holds an indeterminate value: the delete through it either     *)
(* finds it null, as in zeroed storage, or is undefined.  Uninit has no     *)
(* guard: it may be called on a System in any state.  The tasks left in    *)
(* the queue keep their pointers to the objects deleted.                   *)
(***************************************************************************)
UninitUses ==
    (IF m_pSampler = "uninit" THEN {"sampler"} ELSE {})
    \cup (IF m_taskDone.ptr = "uninit" THEN {"taskDone"} ELSE {})

\* every delete has found a pointer that is null or points to an object
UninitReturns ==
    /\ pc' = "Released"
    /\ m_imagesensor' = "null"
    /\ m_camera' = "null"
    /\ m_pSampler' = "null"
    /\ m_taskDone' = NullTable
    /\ queue' = Deleted(queue, {"camera", "sampler", "taskDone"})
    /\ calls' = {"Scene.Release"}
    /\ nullUsed' = nullUsed

\* a delete through member m, which was never assigned: line 165 for the
\* sampler, line 166 for the table, the members before it deleted
UninitFault ==
    \E m \in UninitUses :
        /\ pc' = "Undefined"
        /\ m_imagesensor' = "null"
        /\ m_camera' = "null"
        /\ m_pSampler' = IF m = "sampler" THEN m_pSampler ELSE "null"
        /\ m_taskDone' = m_taskDone
        /\ queue' = Deleted(queue, IF m = "sampler" THEN {"camera"}
                                   ELSE {"camera", "sampler"})
        /\ calls' = {"Scene.Release"}
        /\ nullUsed' = nullUsed \cup {m}

Uninit ==
    /\ Idle
    /\ (UninitReturns \/ UninitFault)
    /\ warnings' = {}
    /\ BeginCall
    /\ UNCHANGED << globalVars, nCalls, sensorW, sensorH, m_iSamplePerPixel,
                    m_integratorType, m_thread_num, m_pProgress, smSize,
                    regionSize, setupRet, m_totalTask, progressByte >>

(***************************************************************************)
(* System::_outputProgress.                                                *)
(***************************************************************************)
\* lines 125-127: taskDone += m_taskDone[i] for i < m_totalTask
TaskDoneCount(table, total) ==
    Cardinality({ i \in 1..total : table[i] })

\* the exponent e with 2^23 <= (a * 2^e) / b, for 0 < a <= b < 2^7
RECURSIVE QuotientExp(_, _, _)
QuotientExp(n, b, e) ==
    IF n \div b >= Pow2(23) THEN e ELSE QuotientExp(2 * n, b, e + 1)

\* the exponent s with p / 2^s < 2^24
RECURSIVE ProductExp(_, _)
ProductExp(p, s) ==
    IF p \div Pow2(s) < Pow2(24) THEN s ELSE ProductExp(p, s + 1)

\* the one element of a set of one element
The(S) == CHOOSE x \in S : TRUE

\* (unsigned)( q * 100 ) for the float q = m / 2^e, m of 24 bits: the product
\* m * 100 is rounded to 24 significant bits, then the conversion truncates
TimesHundred(m, e) ==
    The({ (RoundNearestEven(m * 100, Pow2(s)) * Pow2(s)) \div Pow2(e) :
            s \in {ProductExp(m * 100, 0)} })

\* line 130: (unsigned)( (float)(taskDone) / (float)m_totalTask * 100 ) in
\* IEEE 754 single precision: the quotient is rounded to 24 significant
\* bits, then the product is, then the conversion truncates.  Each
\* intermediate value is computed once and bound to a name.
Progress(taskDone, total) ==
    IF taskDone = 0 THEN 0
    ELSE The(UNION { { TimesHundred(m, e) :
                         m \in {RoundNearestEven(taskDone * Pow2(e), total)} } :
                     e \in {QuotientExp(taskDone, total, 0)} })

\* line 132: the percentage goes to cout
PrintsProgress == ~g_bBlenderMode
\* the store without the test of the pointer
WritesProgressUnchecked == g_bBlenderMode

\* lines 134-135: the percentage goes to *m_pProgress
WritesProgress == g_bBlenderMode /\ m_pProgress

\* lines 124-127: the count loop, over the table as it is at that moment
OutputProgressCount == TaskDoneCount(m_taskDone.flags, m_totalTask)

\* lines 130-137: the percentage of the count taskDone is computed and shown
OutputProgressStore(taskDone) ==
    LET progress == Progress(taskDone, m_totalTask)
    IN  /\ lastReport' = [ taskDone |-> taskDone, total |-> m_totalTask,
                           progress |-> progress ]
        /\ console' = IF PrintsProgress THEN progress ELSE console
        /\ progressByte' = IF WritesProgress THEN progress % 256
                           ELSE progressByte
        \* a store through m_pProgress while it is null
        /\ nullUsed' = IF WritesProgress /\ ~m_pProgress
                       THEN nullUsed \cup {"progress"} ELSE nullUsed

\* lines 122-138 run by the one thread that is left
OutputProgress == OutputProgressStore(OutputProgressCount)

(***************************************************************************)
(* System::_executeRenderingTasks and System::_allocateIntegrator.         *)
(***************************************************************************)
NoTask ==
    [ taskId |-> -1, ori |-> << 0, 0 >>, size |-> << 0, 0 >>,
      sampler |-> "null", camera |-> "null", taskDone |-> "null",
      pass |-> -1 ]

\* lines 264-282: CREATE_TYPE( m_integratorType , Integrator )
AllocateIntegrator == IF m_integratorType = "known" THEN "obj" ELSE "null"

\* the preparations without integrator->SetupCamera(m_camera)
PreparationCallsNoCamera == {"Sensor.PreProcess", "Integrator.PreProcess"}

\* lines 237-241: the hooks called before the threads are made
PreparationCalls ==
    {"Sensor.PreProcess", "Integrator.PreProcess", "Integrator.SetupCamera"}

\* the threads joined without having been started
AfterPrepareNoBegin == IF m_thread_num = 0 THEN "OutputProgress" ELSE "Join"

\* where _executeRenderingTasks goes after its preparations (lines 247-258)
AfterPrepare == IF m_thread_num = 0 THEN "OutputProgress" ELSE "BeginThread"

\* lines 237-249: m_imagesensor->PreProcess(), _allocateIntegrator(),
\* integrator->PreProcess(), integrator->SetupCamera(m_camera), PreMalloc and
\* the construction of the thread units.  The sensor is not null here:
\* _pushRenderTask has used it.
ExecuteRenderingTasksBegin ==
    /\ pc = "Execute"
    /\ integrator' = AllocateIntegrator
    /\ IF AllocateIntegrator = "null"
       THEN \* line 270, then line 240 calls through the null pointer
            /\ pc' = "Undefined"
            /\ warnings' = warnings \cup {NoIntegratorWarning}
            /\ nullUsed' = nullUsed \cup {"integrator"}
            /\ calls' = calls \cup {"Sensor.PreProcess"}
            /\ UNCHANGED thr
       ELSE /\ pc' = AfterPrepare
            /\ warnings' = warnings
            /\ nullUsed' = nullUsed
            /\ calls' = calls \cup PreparationCalls
            /\ thr' = [ i \in 0..(m_thread_num - 1) |->
                          [ st |-> "created", task |-> NoTask, taskDone |-> 0 ] ]
    /\ UNCHANGED << globalVars, nCalls, configVars, taskVars, nStarted, nJoined,
                    popped, rendered, progressVars >>

\* line 252: thread->BeginThread(), in the order of the vector
BeginThread ==
    /\ pc = "BeginThread"
    /\ nStarted < m_thread_num
    /\ thr' = [ thr EXCEPT ![nStarted].st = "idle" ]
    /\ nStarted' = nStarted + 1
    /\ pc' = IF nStarted + 1 = m_thread_num THEN "Join" ELSE "BeginThread"
    /\ UNCHANGED << globalVars, nCalls, configVars, taskVars, integrator, nJoined,
                    popped, rendered, progressVars, warnings, nullUsed, calls >>

\* Join returning while the thread is still running
JoinWithoutWaiting ==
    /\ pc = "Join"
    /\ nJoined < m_thread_num
    /\ nJoined' = nJoined + 1
    /\ pc' = IF nJoined + 1 = m_thread_num THEN "OutputProgress" ELSE "Join"
    /\ UNCHANGED << globalVars, nCalls, configVars, taskVars, integrator, thr,
                    nStarted, popped, rendered, progressVars, warnings,
                    nullUsed, calls >>

\* line 255: thread->Join(), in the order of the vector; blocks until the
\* thread has ended
Join ==
    /\ pc = "Join"
    /\ nJoined < m_thread_num
    /\ thr[nJoined].st = "exited"
    /\ nJoined' = nJoined + 1
    /\ pc' = IF nJoined + 1 = m_thread_num THEN "OutputProgress" ELSE "Join"
    /\ UNCHANGED << globalVars, nCalls, configVars, taskVars, integrator, thr,
                    nStarted, popped, rendered, progressVars, warnings,
                    nullUsed, calls >>

\* line 258
FinalOutputProgress ==
    /\ pc = "OutputProgress"
    /\ OutputProgress
    /\ pc' = "PostProcess"
    /\ UNCHANGED << globalVars, nCalls, configVars, taskVars, threadVars, warnings,
                    calls >>

\* line 260, then Render's line 78
PostProcess ==
    /\ pc = "PostProcess"
    /\ pc' = "Done"
    /\ calls' = calls \cup {"Sensor.PostProcess"}
    /\ UNCHANGED << globalVars, nCalls, configVars, taskVars, threadVars,
                    progressVars, warnings, nullUsed >>

(***************************************************************************)
(* The worker thread, PlatformThreadUnit i, from the design document       *)
(* (4.2, 4.3): pop a task under the queue's mutual exclusion; render the   *)
(* pixels of its tile into the image sensor and set its completion flag;   *)
(* update the progress; end when the queue is found empty.                 *)
(***************************************************************************)
Threads == DOMAIN thr

\* what the execution of task t dereferences that is no object: a pointer
\* that is null or was never assigned, an object that has been deleted, or
\* the entry of an id that the table does not have
ExecuteUses(t) ==
    (IF t.camera \notin {"own", "old"} THEN {"camera"} ELSE {})
    \cup (IF t.sampler \notin {"own", "old"} THEN {"sampler"} ELSE {})
    \cup (IF t.taskDone \notin {"own", "old"} THEN {"taskDone"} ELSE {})
    \cup (IF t.taskDone = "own" /\ t.taskId + 1 \notin DOMAIN m_taskDone.flags
          THEN {"taskDone"} ELSE {})
    \cup (IF integrator = "null" THEN {"integrator"} ELSE {})

ThreadPop(i) ==
    /\ ~Halted
    /\ thr[i].st = "idle"
    /\ IF queue = << >>
       THEN /\ thr' = [ thr EXCEPT ![i].st = "exited" ]
            /\ UNCHANGED << queue, popped >>
       ELSE /\ thr' = [ thr EXCEPT ![i].st = "holding", ![i].task = Head(queue) ]
            /\ queue' = Tail(queue)
            /\ popped' = Append(popped, Head(queue))
    /\ UNCHANGED << globalVars, nCalls, configVars, pc, m_totalTask, m_taskDone, backlog,
                    sp,
                    pushed, integrator, nStarted, nJoined, rendered,
                    progressVars, warnings, nullUsed, calls >>

ThreadExecute(i) ==
    /\ ~Halted
    /\ thr[i].st = "holding"
    /\ IF ExecuteUses(thr[i].task) # {}
       THEN /\ pc' = "Undefined"
            /\ nullUsed' = nullUsed \cup ExecuteUses(thr[i].task)
            /\ UNCHANGED << thr, rendered, m_taskDone >>
       ELSE /\ pc' = pc
            /\ nullUsed' = nullUsed
            /\ rendered' = rendered \cup {thr[i].task}
            \* taskDone[taskId] = true, in the table the task holds
            /\ m_taskDone' =
                 IF thr[i].task.taskDone = "own"
                 THEN [ m_taskDone EXCEPT
                          !.flags[thr[i].task.taskId + 1] = TRUE ]
                 ELSE m_taskDone
            /\ thr' = [ thr EXCEPT ![i].st = "marked" ]
    /\ UNCHANGED << globalVars, nCalls, configVars, m_totalTask, queue, backlog,
                    sp, pushed,
                    integrator, nStarted, nJoined, popped, progressVars,
                    warnings, calls >>

\* the worker's call of _outputProgress, lines 124-127: the entries of the
\* table are counted into the local taskDone.  No lock is held: the other
\* workers set entries and report while this one is between count and store.
ThreadCount(i) ==
    /\ ~Halted
    /\ thr[i].st = "marked"
    /\ thr' = [ thr EXCEPT ![i].st = "counted",
                           ![i].taskDone = OutputProgressCount ]
    /\ UNCHANGED << globalVars, nCalls, configVars, pc, taskVars, integrator,
                    nStarted, nJoined, popped, rendered, progressVars,
                    warnings, nullUsed, calls >>

\* the worker's call of _outputProgress, lines 130-137: the percentage of
\* what this worker counted is stored, whatever has been stored since
ThreadReport(i) ==
    /\ ~Halted
    /\ thr[i].st = "counted"
    /\ OutputProgressStore(thr[i].taskDone)
    /\ thr' = [ thr EXCEPT ![i].st = "idle", ![i].task = NoTask,
                           ![i].taskDone = 0 ]
    /\ UNCHANGED << globalVars, nCalls, configVars, pc, taskVars, integrator, nStarted,
                    nJoined, popped, rendered, warnings, calls >>

Next ==
    \/ Setup
    \/ Uninit
    \/ PreProcess
    \/ Render
    \/ PushRenderTaskBegin
    \/ PushRenderTaskStep
    \/ ExecuteRenderingTasksBegin
    \/ BeginThread
    \/ Join
    \/ FinalOutputProgress
    \/ PostProcess
    \/ \E i \in Threads : ThreadPop(i)
    \/ \E i \in Threads : ThreadExecute(i)
    \/ \E i \in Threads : ThreadCount(i)
    \/ \E i \in Threads : ThreadReport(i)

Spec == Init /\ [][Next]_vars

(***************************************************************************)
(* SpecOnce: the life of a System that is set up once: Setup is called on  *)
(* the System as constructed, Render, PreProcess and Uninit at any time.   *)
(***************************************************************************)
SetupOnce == pc = "Constructed" /\ Setup

NextOnce ==
    \/ SetupOnce
    \/ Uninit
    \/ PreProcess
    \/ Render
    \/ PushRenderTaskBegin
    \/ PushRenderTaskStep
    \/ ExecuteRenderingTasksBegin
    \/ BeginThread
    \/ Join
    \/ FinalOutputProgress
    \/ PostProcess
    \/ \E i \in Threads : ThreadPop(i)
    \/ \E i \in Threads : ThreadExecute(i)
    \/ \E i \in Threads : ThreadCount(i)
    \/ \E i \in Threads : ThreadReport(i)

SpecOnce == Init /\ [][NextOnce]_vars

\* the steps of the thread that calls Render
MainThread ==
    \/ Render
    \/ PushRenderTaskBegin
    \/ PushRenderTaskStep
    \/ ExecuteRenderingTasksBegin
    \/ BeginThread
    \/ Join
    \/ FinalOutputProgress
    \/ PostProcess

\* the steps of worker i
Worker(i) ==
    /\ i \in Threads
    /\ (ThreadPop(i) \/ ThreadExecute(i) \/ ThreadCount(i) \/ ThreadReport(i))

(***************************************************************************)
(* SpecRender: Render called on a system for which Setup has returned      *)
(* true, under fair scheduling: no thread that can take a step is left     *)
(* waiting for ever.                                                       *)
(***************************************************************************)
\* the System when Setup has returned true, n calls counted
Configured(n) ==
    /\ g_bBlenderMode \in BOOLEAN
    /\ g_iTileSize \in 1..MaxT
    /\ pc = "SetupDone"
    /\ nCalls = n
    /\ m_imagesensor = "obj"
    /\ sensorW \in Widths
    /\ sensorH \in Heights
    /\ sensorW * sensorH <= MaxPixels
    /\ m_camera = "obj"
    /\ m_pSampler = "obj"
    /\ m_iSamplePerPixel = "set"
    /\ m_integratorType \in {"known", "unknown"}
    /\ m_thread_num \in ThreadNums
    /\ m_pProgress \in BOOLEAN
    /\ smSize = SharedMemorySize(sensorW, sensorH, g_iTileSize)
    /\ regionSize = (IF m_pProgress THEN smSize ELSE 0)
    /\ setupRet = "true"
    /\ m_totalTask = Indeterminate
    /\ m_taskDone = NoTable
    /\ queue = << >>
    /\ backlog = << >>
    /\ sp = NoLocals
    /\ integrator = "none"
    /\ thr = << >>
    /\ nStarted = 0
    /\ nJoined = 0
    /\ progressByte = 0
    /\ console = -1
    /\ lastReport = NoReport
    /\ warnings = {}
    /\ nullUsed = {}
    /\ calls = {"Camera.PreProcess"}
    /\ pushed = << >>
    /\ popped = << >>
    /\ rendered = {}

\* one call of Render is left
InitRender == Configured(MaxCalls - 1)

NextRender ==
    \/ MainThread
    \/ \E i \in Threads : Worker(i)

SpecRender ==
    /\ InitRender
    /\ [][NextRender]_vars
    /\ WF_vars(MainThread)
    /\ \A i \in 0..(MaxThreads - 1) : WF_vars(Worker(i))

(***************************************************************************)
(* SpecAgain: Setup called again on a System whose last pass has left its  *)
(* tasks in the queue.  It starts where Setup has returned true with a     *)
(* thread number of 0, so that the first call of Render starts no worker.  *)
(***************************************************************************)
InitAgain == Configured(0) /\ m_thread_num = 0

SetupAgain == queue # << >> /\ Setup

NextAgain ==
    \/ SetupAgain
    \/ MainThread
    \/ \E i \in Threads : Worker(i)

SpecAgain == InitAgain /\ [][NextAgain]_vars

(***************************************************************************)
(* SpecTiles: _pushRenderTask alone, over a wider range of sensor sizes    *)
(* and tile edges.  It starts where Render has returned from PreProcess:   *)
(* on a system for which Setup has returned true, and, for the sensors      *)
(* wider than 2^24 pixels, on a system for which Setup has returned false   *)
(* at line 377, the sensor sized and the camera missing (Setup does not     *)
(* reach its size computation, and PreProcess has warned).                  *)
(***************************************************************************)
\* the two sensors of the design document's scenarios: << W, H, T >>
Scenarios == { << 64, 64, 32 >>, << 100, 50, 32 >> }

GenInputs ==
    ((1..GenMaxW) \X (1..GenMaxH) \X (1..GenMaxT)) \cup Scenarios

\* sensors of one row, 2^24 pixels wide or wider: << W, H, T >>.  2^24 is a
\* float and the quotient of line 190 is exact; 2^24 + 1 is rounded down to
\* 2^24 and the quotient comes out one cell short; 2^24 + 11 = 3 * 5592409
\* is rounded up to 2^24 + 12 and the quotient, above 3, gives 4 cells.
WideInputs ==
    { << Pow2(24), 1, Pow2(23) >>,
      << Pow2(24) + 1, 1, Pow2(24) >>, << Pow2(24) + 1, 1, Pow2(23) >>,
      << Pow2(24) + 11, 1, 5592409 >> }

InitTilesConfigured ==
    /\ \E in \in GenInputs :
         /\ sensorW = in[1]
         /\ sensorH = in[2]
         /\ g_iTileSize = in[3]
    /\ m_camera = "obj"
    /\ m_pProgress = TRUE
    /\ smSize = SharedMemorySize(sensorW, sensorH, g_iTileSize)
    /\ regionSize = smSize
    /\ setupRet = "true"
    /\ warnings = {}
    /\ calls = {"Scene.PreProcess"}

InitTilesWide ==
    /\ \E in \in WideInputs :
         /\ sensorW = in[1]
         /\ sensorH = in[2]
         /\ g_iTileSize = in[3]
    /\ m_camera = "null"
    /\ m_pProgress = FALSE
    /\ smSize = 0
    /\ regionSize = 0
    /\ setupRet = "false"
    /\ warnings = {NoCameraWarning}
    /\ calls = {}

InitTiles ==
    /\ g_bBlenderMode = FALSE
    /\ (InitTilesConfigured \/ InitTilesWide)
    /\ pc = "PushTask"
    /\ nCalls = 2
    /\ m_imagesensor = "obj"
    /\ m_pSampler = "obj"
    /\ m_iSamplePerPixel = "set"
    /\ m_integratorType = "known"
    /\ m_thread_num = DefaultThreadNum
    /\ m_totalTask = Indeterminate
    /\ m_taskDone = NoTable
    /\ queue = << >>
    /\ backlog = << >>
    /\ sp = NoLocals
    /\ integrator = "none"
    /\ thr = << >>
    /\ nStarted = 0
    /\ nJoined = 0
    /\ progressByte = 0
    /\ console = -1
    /\ lastReport = NoReport
    /\ nullUsed = {}
    /\ pushed = << >>
    /\ popped = << >>
    /\ rendered = {}

NextTiles ==
    \/ PushRenderTaskBegin
    \/ PushRenderTaskStep

SpecTiles == InitTiles /\ [][NextTiles]_vars

\* the loop is straight-line code of one thread: it keeps taking its steps
SpecTilesFair == SpecTiles /\ WF_vars(NextTiles)

(***************************************************************************)
(* SpecStrip: one whole pass over a sensor of MaxTotal x 1 pixels with     *)
(* tile edge 1 and one thread, from the state Setup leaves; the completion *)
(* table then has MaxTotal entries and the pass reports every count.  It   *)
(* is the last call made on the System.                                    *)
(***************************************************************************)
InitStrip ==
    /\ g_bBlenderMode \in BOOLEAN
    /\ g_iTileSize = 1
    /\ pc = "SetupDone"
    /\ nCalls = MaxCalls - 1
    /\ m_imagesensor = "obj"
    /\ sensorW = MaxTotal
    /\ sensorH = 1
    /\ m_camera = "obj"
    /\ m_pSampler = "obj"
    /\ m_iSamplePerPixel = "set"
    /\ m_integratorType = "known"
    /\ m_thread_num = DefaultThreadNum
    /\ m_pProgress \in BOOLEAN
    /\ smSize = SharedMemorySize(sensorW, sensorH, g_iTileSize)
    /\ regionSize = (IF m_pProgress THEN smSize ELSE 0)
    /\ setupRet = "true"
    /\ m_totalTask = Indeterminate
    /\ m_taskDone = NoTable
    /\ queue = << >>
    /\ backlog = << >>
    /\ sp = NoLocals
    /\ integrator = "none"
    /\ thr = << >>
    /\ nStarted = 0
    /\ nJoined = 0
    /\ progressByte = 0
    /\ console = -1
    /\ lastReport = NoReport
    /\ warnings = {}
    /\ nullUsed = {}
    /\ calls = {"Camera.PreProcess"}
    /\ pushed = << >>
    /\ popped = << >>
    /\ rendered = {}

NextStrip ==
    \/ Render
    \/ PushRenderTaskBegin
    \/ PushRenderTaskStep
    \/ ExecuteRenderingTasksBegin
    \/ BeginThread
    \/ Join
    \/ FinalOutputProgress
    \/ PostProcess
    \/ \E i \in Threads : ThreadPop(i)
    \/ \E i \in Threads : ThreadExecute(i)
    \/ \E i \in Threads : ThreadCount(i)
    \/ \E i \in Threads : ThreadReport(i)

SpecStrip == InitStrip /\ [][NextStrip]_vars

(***************************************************************************)
(* SpecShm: Setup alone, on render targets up to HugeEdge x HugeEdge.      *)
(***************************************************************************)
InitShm ==
    /\ g_bBlenderMode \in BOOLEAN
    /\ g_iTileSize \in LargeTileSizes
    /\ PreInit

NextShm == SetupLarge

SpecShm == InitShm /\ [][NextShm]_vars

(***************************************************************************)
(* Properties.                                                             *)
(***************************************************************************)
InRect(x, y, t) ==
    /\ t.ori[1] <= x /\ x < t.ori[1] + t.size[1]
    /\ t.ori[2] <= y /\ y < t.ori[2] + t.size[2]

InsideImage(t) ==
    /\ t.ori[1] >= 0 /\ t.size[1] >= 1 /\ t.ori[1] + t.size[1] <= sensorW
    /\ t.ori[2] >= 0 /\ t.size[2] >= 1 /\ t.ori[2] + t.size[2] <= sensorH

\* two rectangles with no pixel in common
Disjoint(t, u) ==
    \/ t.ori[1] + t.size[1] <= u.ori[1]
    \/ u.ori[1] + u.size[1] <= t.ori[1]
    \/ t.ori[2] + t.size[2] <= u.ori[2]
    \/ u.ori[2] + u.size[2] <= t.ori[2]

AllTasksDone ==
    /\ Len(m_taskDone.flags) = m_totalTask
    /\ \A i \in 1..Len(m_taskDone.flags) : m_taskDone.flags[i]
    /\ \A i \in 1..Len(pushed) :
         /\ pushed[i].taskId + 1 \in 1..Len(m_taskDone.flags)
         /\ pushed[i] \in rendered

\* the workers have been joined: _executeRenderingTasks is at line 258 or later
AfterJoin == pc \in {"OutputProgress", "PostProcess", "Done"}

\* the number of pixels in the rectangles of the first n pushed tasks
RECURSIVE PushedArea(_)
PushedArea(n) ==
    IF n = 0 THEN 0
    ELSE pushed[n].size[1] * pushed[n].size[2] + PushedArea(n - 1)

\* C1: once _pushRenderTask has returned, every pixel of the W x H image lies
\* in exactly one pushed tile: every pushed tile is a non-empty rectangle
\* inside the image, no two pushed tiles have a pixel in common (so no pixel
\* lies in two, also while the generation runs), and when the generation has
\* returned the tiles hold W * H pixels between them (so no pixel lies in none).
C1_TilesPartitionImage ==
    /\ \A i \in 1..Len(pushed) : InsideImage(pushed[i])
    /\ \A i, j \in 1..Len(pushed) : i # j => Disjoint(pushed[i], pushed[j])
    /\ pc = "Execute" => PushedArea(Len(pushed)) = sensorW * sensorH

\* what tells a task from every other: the pass that made it and its id
Ident(t) == << t.pass, t.taskId >>

\* the tasks pushed before the workers of this call start: those an earlier
\* call has left in the queue and those of this call
Queued == backlog \o pushed

\* C2: within one call of Render no task is returned by two pops, every
\* popped task was pushed before the workers started, every such task is
\* either still queued or popped, and once a pool of at least one worker has
\* been joined the pops are exactly the N tasks pushed.
C2_EachTaskPoppedOnce ==
    /\ \A i, j \in 1..Len(popped) :
         i # j => Ident(popped[i]) # Ident(popped[j])
    /\ \A i \in 1..Len(popped) :
         \E j \in 1..Len(Queued) : Ident(Queued[j]) = Ident(popped[i])
    /\ Len(popped) + Len(queue) = Len(Queued)
    /\ (AfterJoin /\ m_thread_num >= 1) =>
         /\ Len(popped) = Len(Queued)
         /\ { Ident(popped[i]) : i \in 1..Len(popped) } =
              { Ident(Queued[j]) : j \in 1..Len(Queued) }

\* two workers have drained a queue of at least four tasks
C2_Witness ==
    /\ pc = "Done"
    /\ m_thread_num = 2
    /\ Len(popped) >= 4
    /\ queue = << >>

\* the tasks whose tile is being written or has been written
Writers ==
    rendered \cup { thr[i].task : i \in { j \in Threads : thr[j].st = "holding" } }

\* the writers that write the sensor of the System: they hold the camera
\* of the System, to which a Setup that has returned true has attached the
\* sensor (line 400)
SensorWriters ==
    IF setupRet = "true" THEN { t \in Writers : t.camera = "own" } ELSE {}

\* C3: the rectangles of two different tasks that write the sensor have no
\* pixel in common and lie inside the image, and so do the rectangles of any
\* two pushed tasks.
C3_NoPixelWrittenTwice ==
    /\ \A t \in SensorWriters : InsideImage(t)
    /\ \A t, u \in SensorWriters : Ident(t) # Ident(u) => Disjoint(t, u)
    /\ \A i \in 1..Len(pushed) : InsideImage(pushed[i])
    /\ \A i, j \in 1..Len(pushed) : i # j => Disjoint(pushed[i], pushed[j])

\* C4 as stated: after the join the queue is empty and every pushed task has
\* been popped and marked done, whatever the thread count.
C4_DrainedWhateverThreadNum ==
    AfterJoin => (queue = << >> /\ Len(popped) = Len(Queued) /\ AllTasksDone)

\* C4, amended: after the join of a pool of at least one thread the queue is
\* empty and every pushed task has been popped, rendered and marked done.
C4_DrainedAfterJoin ==
    (AfterJoin /\ m_thread_num >= 1) =>
        (queue = << >> /\ Len(popped) = Len(Queued) /\ AllTasksDone)

\* the join of two workers has returned on a pass of at least four tiles
C4_Witness ==
    /\ pc = "OutputProgress"
    /\ m_thread_num = 2
    /\ nJoined = 2
    /\ Len(pushed) >= 4

\* C5: over the life of one render pass with N > 0 tiles the progress byte
\* that the host reads (Blender mode, shared memory created) never decreases
\* from one observation to the next once the pass has reported, and it is
\* 100 once the pass has completed.
C5_ByteNeverDecreases ==
    /\ [][(m_totalTask > 0 /\ WritesProgress /\ lastReport # NoReport
             /\ lastReport' # NoReport)
            => progressByte' >= progressByte]_vars
    /\ []((pc = "Done" /\ m_totalTask > 0 /\ WritesProgress)
            => progressByte = 100)

\* C6: every report is floor(100 * completed / total), lies in 0..100 and is
\* 100 only when every entry of the table is set.
C6_ReportIsFloor ==
    lastReport.total > 0 =>
        /\ lastReport.progress = (100 * lastReport.taskDone) \div lastReport.total
        /\ lastReport.progress \in 0..100
        /\ lastReport.progress = 100 => lastReport.taskDone = lastReport.total

PreProcessWarned == warnings \cap {NoTargetWarning, NoCameraWarning} # {}

\* C7: after PreProcess has warned that the sensor or the camera is missing,
\* no task is pushed, no completion table is allocated (_pushRenderTask has
\* not begun), no worker is launched and neither missing object is
\* dereferenced.
C7_MissingSensorOrCameraAborts ==
    PreProcessWarned =>
        /\ pushed = << >>
        /\ Len(queue) = Len(backlog)
        /\ sp = NoLocals
        /\ thr = << >>
        /\ nStarted = 0
        /\ nullUsed \cap {"sensor", "camera"} = {}

\* C8: Setup ends by returning true or false, uses no missing component, and
\* returns true only with sensor, camera and sampler attached.
C8_SetupFailuresReturnFalse ==
    setupRet # "none" =>
        /\ setupRet \in {"true", "false"}
        /\ (pc = "SetupDone" => nullUsed = {})
        /\ (pc = "SetupDone" /\ setupRet = "true") =>
             (m_imagesensor = "obj" /\ m_camera = "obj" /\ m_pSampler = "obj")

\* C9: after _allocateIntegrator has warned that no integrator has the
\* configured name, the null integrator is not used, no worker is launched
\* and the process is not in undefined behaviour.
C9_MissingIntegratorAborts ==
    (setupRet = "true" /\ m_integratorType = "unknown"
        /\ NoIntegratorWarning \in warnings) =>
        /\ "integrator" \notin nullUsed
        /\ calls \cap {"Integrator.PreProcess", "Integrator.SetupCamera"} = {}
        /\ nStarted = 0
        /\ ~Halted

\* Setup found no shared memory and a report has been made since
ReportedWithoutSharedMemory ==
    setupRet = "true" /\ ~m_pProgress /\ lastReport.total > 0

\* C10 as stated: without shared memory every report of a pass (here one with
\* at least one worker) prints the percentage on the console, in either mode.
C10_ConsoleInEitherMode ==
    (ReportedWithoutSharedMemory /\ m_thread_num >= 1) =>
        console = lastReport.progress

\* C10, amended: without shared memory nothing is stored through the null
\* pointer and the byte is never written; a report prints the percentage on
\* the console in standalone mode and reports it nowhere in Blender mode;
\* the pass still completes with every task rendered and marked done.
C10_DegradedProgress ==
    (setupRet = "true" /\ ~m_pProgress) =>
        /\ "progress" \notin nullUsed
        /\ progressByte = 0
        /\ lastReport.total > 0 =>
             console = (IF g_bBlenderMode THEN -1 ELSE lastReport.progress)
        /\ (pc = "Done" /\ m_thread_num >= 1) =>
             (AllTasksDone /\ lastReport.progress = 100)

\* a Blender-mode pass without shared memory has reported and completed
C10_Witness ==
    /\ ReportedWithoutSharedMemory
    /\ g_bBlenderMode
    /\ pc = "Done"
    /\ m_thread_num = 2
    /\ lastReport.progress = 100

\* the size of the region is the sum of header, pixel buffer and two bytes
SizeIsLayoutSum ==
    LET header == HeaderSize(sensorW, sensorH, g_iTileSize)
        buffer == smSize - header - 2
    IN  /\ buffer >= 0
        /\ buffer % (4 * SizeofFloat * 2) = 0
        /\ buffer \div (4 * SizeofFloat * 2) = header * g_iTileSize * g_iTileSize

\* C11: Setup stores nothing beyond the region it is handed, and after it
\* has returned true the size asked of CreateSharedMemory is
\* tiles + tiles * T * T * 4 * sizeof(float) * 2 + 2 (66848762 for
\* 1920 x 1080 with T = 32), and the progress byte and the final-update
\* flag are the last two bytes of the region m_pProgress points into.
C11_SharedMemoryLayout ==
    /\ "region" \notin nullUsed
    /\ setupRet = "true" =>
        /\ SizeIsLayoutSum
        /\ (sensorW = 1920 /\ sensorH = 1080 /\ g_iTileSize = 32) =>
              smSize = 66848762
        /\ m_pProgress =>
              /\ ProgressOffset \in 0..(regionSize - 1)
              /\ FinalFlagOffset \in 0..(regionSize - 1)
              /\ FinalFlagOffset = ProgressOffset + 1

\* the image-centre pixel (floor(W/2), floor(H/2)) and its tile's origin
CentrePixel == << sensorW \div 2, sensorH \div 2 >>
CentreTileOri ==
    << (CentrePixel[1] \div g_iTileSize) * g_iTileSize,
       (CentrePixel[2] \div g_iTileSize) * g_iTileSize >>

\* C12 as stated: the first tile pushed, task 0, holds the image-centre pixel
\* and its origin is that pixel rounded down to the tile grid.
C12_FirstTileHoldsCentrePixel ==
    pushed # << >> =>
        /\ pushed[1].taskId = 0
        /\ InRect(CentrePixel[1], CentrePixel[2], pushed[1])
        /\ pushed[1].ori = CentreTileOri

\* C12, amended: the first tile pushed, task 0, is the tile of grid cell
\* (floor(tiles_x/2), floor(tiles_y/2)) of the grid that line 190 computes;
\* it holds the image-centre pixel on every axis whose extent is a multiple
\* of the tile edge and on which line 190 gives extent / T cells.
C12_FirstTileIsCentreCell ==
    pushed # << >> =>
        /\ pushed[1].taskId = 0
        /\ pushed[1].ori =
             << (CeilDiv(sensorW, g_iTileSize) \div 2) * g_iTileSize,
                (CeilDiv(sensorH, g_iTileSize) \div 2) * g_iTileSize >>
        /\ (sensorW % g_iTileSize = 0
              /\ CeilDiv(sensorW, g_iTileSize) = sensorW \div g_iTileSize) =>
             (pushed[1].ori[1] <= CentrePixel[1]
                /\ CentrePixel[1] < pushed[1].ori[1] + pushed[1].size[1])
        /\ (sensorH % g_iTileSize = 0
              /\ CeilDiv(sensorH, g_iTileSize) = sensorH \div g_iTileSize) =>
             (pushed[1].ori[2] <= CentrePixel[2]
                /\ CentrePixel[2] < pushed[1].ori[2] + pushed[1].size[2])

\* a generation has finished whose first tile does not start at the origin
\* and does not hold the centre pixel
C12_Witness ==
    /\ pc = "Execute"
    /\ pushed[1].taskId = 0
    /\ pushed[1].ori[1] > 0 /\ pushed[1].ori[2] > 0
    /\ ~InRect(CentrePixel[1], CentrePixel[2], pushed[1])

\* ceil(n / d) of the real quotient
Ceiling(n, d) == (n + d - 1) \div d

\* C13: the pushed tasks carry the ids 0, 1, ... in the order of their push;
\* the completion table is allocated before the first push with
\* m_totalTask = ceil(W/T) * ceil(H/T) entries, none of them set during the
\* generation; every id indexes inside the table, and when the generation
\* has returned exactly m_totalTask tasks have been pushed.
C13_IdsIndexCompletionTable ==
    /\ \A i \in 1..Len(pushed) :
         /\ pushed[i].taskId = i - 1
         /\ pushed[i].taskId < m_totalTask
         /\ pushed[i].taskId + 1 \in DOMAIN m_taskDone.flags
    /\ pc \in {"Spiral", "Execute"} =>
         /\ m_totalTask =
              Ceiling(sensorW, g_iTileSize) * Ceiling(sensorH, g_iTileSize)
         /\ Len(m_taskDone.flags) = m_totalTask
         /\ \A i \in 1..m_totalTask : ~m_taskDone.flags[i]
    /\ pc = "PushTask" => pushed = << >>
    /\ pc = "Execute" => Len(pushed) = m_totalTask

\* The infinite square spiral, by runs: run r = 0, 1, 2, ... has r \div 2 + 1
\* steps (1, 1, 2, 2, 3, 3, ...) in direction up, left, down, right in turn.
SpiralRunLength(r) == r \div 2 + 1
SpiralRunDir(r) ==
    CASE r % 4 = 0 -> << 0, -1 >>   \* up
      [] r % 4 = 1 -> << -1, 0 >>   \* left
      [] r % 4 = 2 -> << 0, 1 >>    \* down
      [] r % 4 = 3 -> << 1, 0 >>    \* right

CellInGrid(c, nx, ny) == c[1] \in 0..(nx - 1) /\ c[2] \in 0..(ny - 1)

\* the first want cells of the spiral that lie in the nx x ny grid, from cell
\* c on, c being reached after taken steps of run r
RECURSIVE SpiralInGrid(_, _, _, _, _, _, _)
SpiralInGrid(c, r, taken, nx, ny, want, acc) ==
    LET acc2 == IF CellInGrid(c, nx, ny) THEN Append(acc, c) ELSE acc
    IN  IF Len(acc2) >= want THEN acc2
        ELSE IF taken < SpiralRunLength(r)
        THEN SpiralInGrid(<< c[1] + SpiralRunDir(r)[1], c[2] + SpiralRunDir(r)[2] >>,
                          r, taken + 1, nx, ny, want, acc2)
        ELSE SpiralInGrid(<< c[1] + SpiralRunDir(r + 1)[1],
                             c[2] + SpiralRunDir(r + 1)[2] >>,
                          r + 1, 1, nx, ny, want, acc2)

GridX == CeilDiv(sensorW, g_iTileSize)
GridY == CeilDiv(sensorH, g_iTileSize)

\* the grid cell of a pushed task
CellOf(t) == << t.ori[1] \div g_iTileSize, t.ori[2] \div g_iTileSize >>

\* C14: the tiles are pushed in the order in which the square spiral from
\* cell (floor(tiles_x/2), floor(tiles_y/2)) meets the cells of the grid, cells
\* off the grid being passed over; no cell of the grid is left out when the
\* walk stops (for 64 x 64 with T = 32: the four cells, from (1,1) on).
C14_SpiralOrder ==
    /\ Len(pushed) <= GridX * GridY
    /\ Len(pushed) >= 1 =>
         [ i \in 1..Len(pushed) |-> CellOf(pushed[i]) ] =
             SpiralInGrid(<< GridX \div 2, GridY \div 2 >>, 0, 0, GridX, GridY,
                          Len(pushed), << >>)
    /\ pc = "Execute" => Len(pushed) = GridX * GridY
    /\ (pc = "Execute" /\ sensorW = 64 /\ sensorH = 64 /\ g_iTileSize = 32) =>
         [ i \in 1..Len(pushed) |-> CellOf(pushed[i]) ] =
             << << 1, 1 >>, << 1, 0 >>, << 0, 0 >>, << 0, 1 >> >>

\* the walk is off the grid on one axis with tiles pushed and tiles to come
C14_Witness ==
    /\ pc = "Spiral"
    /\ ~InGrid(sp.cur_pos, sp.tile_num)
    /\ Len(pushed) >= 4
    /\ Len(pushed) < GridX * GridY
    /\ sp.cur_dir_len >= 3

Min(a, b) == IF a < b THEN a ELSE b

\* the pushed tasks of column x = 96 and of row y = 32 in the 100 x 50 scenario
ClippedColumn == { i \in 1..Len(pushed) : pushed[i].ori[1] = 96 }
ClippedRow == { i \in 1..Len(pushed) : pushed[i].ori[2] = 32 }

\* C15: every pushed tile has its origin at (cx * T, cy * T) for a cell
\* (cx, cy) of the grid, size.x = min(T, W - ori.x), size.y = min(T, H - ori.y),
\* sizes between 1 and T, and lies inside the image; 100 x 50 with T = 32
\* gives 8 tiles, those at x = 96 of width 4 and those at y = 32 of height 18.
C15_TilesClippedAtEdges ==
    /\ \A i \in 1..Len(pushed) :
         LET t == pushed[i] IN
         /\ t.ori[1] % g_iTileSize = 0
         /\ t.ori[2] % g_iTileSize = 0
         /\ CellInGrid(CellOf(t), GridX, GridY)
         /\ t.size[1] = Min(g_iTileSize, sensorW - t.ori[1])
         /\ t.size[2] = Min(g_iTileSize, sensorH - t.ori[2])
         /\ t.size[1] \in 1..g_iTileSize
         /\ t.size[2] \in 1..g_iTileSize
         /\ t.ori[1] + t.size[1] <= sensorW
         /\ t.ori[2] + t.size[2] <= sensorH
    /\ (pc = "Execute" /\ sensorW = 100 /\ sensorH = 50 /\ g_iTileSize = 32) =>
         /\ Len(pushed) = 8
         /\ Cardinality(ClippedColumn) = 2
         /\ Cardinality(ClippedRow) = 4
         /\ \A i \in ClippedColumn : pushed[i].size[1] = 4
         /\ \A i \in ClippedRow : pushed[i].size[2] = 18
         /\ \A i \in (1..8) \ ClippedColumn : pushed[i].size[1] = 32
         /\ \A i \in (1..8) \ ClippedRow : pushed[i].size[2] = 32

Max(a, b) == IF a < b THEN b ELSE a

OffGridX(c) == c[1] < 0 \/ c[1] >= GridX
OffGridY(c) == c[2] < 0 \/ c[2] >= GridY

\* the walk has not gone further than the runs that surround the grid, is at
\* no cell off the grid on both axes while the loop runs, and is at such a
\* cell when the loop has been left
WalkStopsAtFirstOffGridCell ==
    /\ pc = "Spiral" =>
         /\ sp.cur_dir_len <= 2 * Max(GridX, GridY)
         /\ sp.cur_len <= sp.cur_dir_len
         /\ ~(OffGridX(sp.cur_pos) /\ OffGridY(sp.cur_pos))
    /\ pc = "Execute" => (OffGridX(sp.cur_pos) /\ OffGridY(sp.cur_pos))

\* C16: the loop of _pushRenderTask is left after finitely many turns, at the
\* first cell of the walk that is off the grid on both axes.
C16_WalkTerminates ==
    /\ <>(pc = "Execute")
    /\ []WalkStopsAtFirstOffGridCell

\* the loop has been left after runs of length five or more
C16_Witness ==
    /\ pc = "Execute"
    /\ sp.cur_dir_len >= 5
    /\ OffGridX(sp.cur_pos) /\ OffGridY(sp.cur_pos)
    /\ Len(pushed) = GridX * GridY

\* the hooks of lines 237-241
SensorAndIntegratorPrepared ==
    {"Sensor.PreProcess", "Integrator.PreProcess", "Integrator.SetupCamera"}
        \subseteq calls

\* every tile of the sensor has been pushed and _pushRenderTask has returned
PopulationComplete ==
    /\ pc \notin {"Constructed", "SetupDone", "PushTask", "Spiral"}
    /\ Len(pushed) = GridX * GridY

\* a worker has been started only when every task has been pushed
WorkersStartOnFullQueue == nStarted > 0 => PopulationComplete

\* C17: when the first worker is started every task has been pushed, and
\* from then on, until Render returns, nothing is pushed and the queue never
\* grows.
C17_QueueFilledBeforeWorkers ==
    /\ []WorkersStartOnFullQueue
    /\ [][(nStarted > 0 /\ ~Idle) =>
            (pushed' = pushed /\ Len(queue') <= Len(queue))]_vars

\* two workers are running, one holds a task, the other has ended, and tasks
\* have been taken from a queue that was filled with four or more
C17_Witness ==
    /\ nStarted = 2
    /\ pc = "Join"
    /\ Len(pushed) >= 4
    /\ Len(queue) < Len(pushed)
    /\ \E i \in Threads : thr[i].st = "holding"

\* C18 as stated: the sensor's and the integrator's preparations are complete
\* when tile generation begins, and generation and population are complete
\* when the first worker is started.
C18_PreparedBeforeGeneration ==
    /\ (pc = "Spiral" \/ pushed # << >>) => SensorAndIntegratorPrepared
    /\ nStarted > 0 => PopulationComplete

\* C18, amended: System::PreProcess has returned (the scene preprocessed
\* unless it warned) when tile generation begins; generation and population
\* are complete before the sensor's PreProcess and the integrator's
\* PreProcess and SetupCamera are called; all three have been called, and the
\* population is complete, when the first worker is started.
C18_GenerationBeforePreparation ==
    /\ pc \in {"PushTask", "Spiral"} =>
         /\ calls \cap {"Sensor.PreProcess", "Integrator.PreProcess",
                         "Integrator.SetupCamera"} = {}
         /\ PreProcessWarnings = {} => "Scene.PreProcess" \in calls
         /\ nStarted = 0
    /\ "Sensor.PreProcess" \in calls => PopulationComplete
    /\ nStarted > 0 => (SensorAndIntegratorPrepared /\ PopulationComplete)

\* the first worker is started after generation and preparations
C18_Witness ==
    /\ pc = "BeginThread"
    /\ nStarted = 1
    /\ m_thread_num = 2
    /\ Len(pushed) >= 4
    /\ SensorAndIntegratorPrepared
    /\ "Scene.PreProcess" \in calls

\* C19: once the final progress report or the sensor's PostProcess has
\* begun, every thread of the pool has been started and joined and has
\* ended, and none starts afterwards.
C19_FinalReportAfterJoin ==
    (AfterJoin \/ "Sensor.PostProcess" \in calls) =>
        /\ nStarted = m_thread_num
        /\ nJoined = m_thread_num
        /\ Threads = 0..(m_thread_num - 1)
        /\ \A i \in Threads : thr[i].st = "exited"

\* the pass of two workers has completed
C19_Witness ==
    /\ "Sensor.PostProcess" \in calls
    /\ m_thread_num = 2
    /\ nJoined = 2
    /\ Len(popped) >= 4
    /\ lastReport.progress = 100

\* a pass of a system Setup has completed, about to make its pool of k >= 1
RenderReady ==
    /\ pc = "Execute"
    /\ setupRet = "true"
    /\ m_integratorType = "known"
    /\ m_thread_num >= 1

\* every worker has found the queue empty and ended, and the pass is done
PassCompleted ==
    /\ pc = "Done"
    /\ queue = << >>
    /\ nJoined = m_thread_num
    /\ \A i \in Threads : thr[i].st = "exited"
    /\ "Sensor.PostProcess" \in calls
    /\ nullUsed = {}

\* C20: under fair scheduling a pass with k >= 1 workers completes: every
\* worker finds the queue empty and ends, every Join returns, PostProcess runs.
C20_PassCompletes == RenderReady ~> PassCompleted

\* a pass of two workers over four tiles or more has completed
C20_Witness ==
    /\ PassCompleted
    /\ setupRet = "true"
    /\ m_thread_num = 2
    /\ Len(popped) >= 4

====
